---- MODULE Spec2Model ----
(***************************************************************************)
(* Notification dispatch engine of the Akram backend: the Evolution API    *)
(* client (rate limit, retries), the vendor orchestrator                   *)
(* send_daily_alerts, the client orchestrator send_client_alerts, the      *)
(* single-message path send_message_to_number and the notifications_log    *)
(* ledger they share.                                                      *)
(*                                                                         *)
(* The services are asyncio coroutines: everything between two awaits is   *)
(* one atomic step.  The awaits are the rate-limit sleep, the HTTP POST    *)
(* and the sleeps after a failed attempt, all inside send_text.  Database  *)
(* calls are synchronous.  Each caller owns its own Session: a             *)
(* NotificationLog added to the Session reaches the table at db.commit().  *)
(***************************************************************************)
EXTENDS Integers, Sequences, FiniteSets, TLC

\* ---------------------------------------------------------------- constants
BATCH_SIZE == 10
BATCH_PAUSE == 30
max_retries == 3
retry_delay == 2
PRODUCTS_PER_MESSAGE == 25
CLIENT_PRODUCTS_PER_MESSAGE == 15
ERRORS_CAP == 20

\* ------------------------------------------------------------------- bounds
\* last local calendar day the clock reaches (days are 0..MaxDay)
MaxDay == 1
\* size of the MUITO CRITICO tier in the non-empty product snapshot
MaxProducts == 26
\* longest payload list and largest item cap given to the splitting
MaxLen == 47
MaxCap == 25
\* most digits in a phone value given to the normalizations
MaxPhoneLen == 14
\* longest notification_types list given to the vendor payload
MaxTypes == 3
\* longest rendered message or error text given to the log
MaxText == 502

\* concurrent callers (scheduler tick, manual trigger, webhook reply)
Procs == {1, 2}

\* answers of the gateway to one POST: 2xx; a 4xx other than 429; one of
\* 429, 500, 502, 503, 504 (send_text treats the five alike); no answer
Outcomes == {"ok", "s400", "s500", "timeout"}

VARIABLES
    ledger,         \* committed rows of notifications_log
    day,            \* today's local calendar date
    upload,         \* TRUE iff a completed product upload exists
    products_map,   \* tier -> product ids of the latest upload
    phone_numbers,  \* rows of phone_numbers, in query order
    clients,        \* celular of the inactive clients, in query order
    store_up,       \* TRUE iff the database answers; FALSE: its calls raise
    run,            \* per caller: the coroutine's local state
    call            \* a function applied on its own: name, arguments, result

vars == <<ledger, day, upload, products_map, phone_numbers, clients, store_up,
         run, call>>

\* ------------------------------------------------------------ small helpers
Range(s) == {s[i] : i \in 1..Len(s)}

Iota(n) == [i \in 1..n |-> i]

Min(a, b) == IF a < b THEN a ELSE b

RECURSIVE Uniq(_)
\* {p.id: p for p in contact_products}.values(): first occurrence order
Uniq(s) ==
    IF s = <<>> THEN <<>>
    ELSE LET r == Uniq(SubSeq(s, 1, Len(s) - 1))
             x == s[Len(s)]
         IN IF x \in Range(r) THEN r ELSE Append(r, x)

\* ----------------------------------------------------------- configuration
Tiers == <<"MUITO CRITICO", "CRITICO", "ATENCAO">>

FullMap == [t \in Range(Tiers) |->
              IF t = "MUITO CRITICO" THEN Iota(MaxProducts)
              ELSE IF t = "CRITICO" THEN <<101>>
              ELSE <<>>]

EmptyMap == [t \in Range(Tiers) |-> <<>>]

\* notification_types column: NULL/empty, a JSON list, JSON that is not a
\* list, or text that is not JSON
TypesNull == [kind |-> "null", items |-> <<>>]
TypesEmpty == [kind |-> "empty", items |-> <<>>]
TypesList(l) == [kind |-> "list", items |-> l]
TypesNotList == [kind |-> "notlist", items |-> <<>>]
TypesBad == [kind |-> "invalid", items |-> <<>>]

Contact(n, a, t) == [number |-> n, is_active |-> a, notification_types |-> t]

\* PhoneNumber.number values
P1 == <<"5", "5", "1">>
P2 == <<"5", "5", "2">>
P3 == <<"5", "5", "3">>

\* phone_numbers tables
TwoVendors ==
    << Contact(P1, TRUE, TypesList(<<"CRITICO">>)),
       Contact(P2, TRUE, TypesList(<<"CRITICO", "VENCIDO">>)) >>

MixedVendors ==
    << Contact(P3, FALSE, TypesNull),
       Contact(P2, TRUE, TypesList(<<"ATENCAO">>)),
       Contact(P1, TRUE, TypesNull) >>

NoActiveVendor == << Contact(P3, FALSE, TypesNull) >>

\* Client.celular values: strings as sequences of characters
Digits == {"0", "1", "2", "3", "4", "5", "6", "7", "8", "9"}

\* inactive-client tables (celular column)
SomeClients ==
    << <<"V", "E", "R">>, <<"6","6","9","9","6","1","0","9","7","9","7">> >>

\* the deployments the model starts from:
\* <<upload, products_map, phone_numbers, clients>>
Deployments == {
    <<TRUE, FullMap, TwoVendors, SomeClients>>,
    <<TRUE, FullMap, MixedVendors, << >> >>,
    <<TRUE, EmptyMap, NoActiveVendor, SomeClients>>,
    <<FALSE, EmptyMap, TwoVendors, SomeClients>> }

\* ------------------------------------------------ notifications_log (model)
\* Column attributes of the NotificationLog class
NotificationLogColumns ==
    {"id", "phone", "message", "status", "error", "direction", "sent_at"}

\* --------------------------------------------------------- EvolutionAPIClient
\* _apply_rate_limit, given the counter after its increment: which sleep
PauseKind(message_count) ==
    IF message_count > 0 /\ message_count % BATCH_SIZE = 0
    THEN "batch" ELSE "random"

\* send_text, except HTTPStatusError branch: the extra wait after attempt
ExtraWait(o, attempt) ==
    IF o = "s500" THEN 10 * attempt ELSE 0

\* send_text, sleep between attempts
RetrySleep(attempt) ==
    IF attempt < max_retries THEN retry_delay * attempt ELSE 0

\* send_text: phone.replace("+", "").replace(" ", "").replace("-", "")
\* .replace("(", "").replace(")", "")
StripSeparators(phone) ==
    SelectSeq(phone, LAMBDA ch : ch \notin {"+", " ", "-", "(", ")"})

\* str.startswith("55")
StartsWith55(s) == Len(s) >= 2 /\ s[1] = "5" /\ s[2] = "5"

\* slip: the country code is prepended without looking at the number
CleanPhoneAlwaysPrefix(phone) == <<"5", "5">> \o StripSeparators(phone)

\* send_text: clean_phone, the number put on the wire
CleanPhone(phone) ==
    LET clean_phone == StripSeparators(phone)
    IN  IF ~StartsWith55(clean_phone) THEN <<"5", "5">> \o clean_phone
        ELSE clean_phone

\* slip: range(1, max_retries + 2)
TriesAgainOffByOne(o, attempt) == attempt < max_retries + 1

\* send_text: TRUE iff the for loop makes another attempt after this failure
TriesAgain(o, attempt) == attempt < max_retries

\* ------------------------------------------------------ notification_service
\* slip: every unusable setting gets the default
UserTypesMalformedAll(nt) ==
    IF nt.kind = "list" THEN nt.items ELSE Tiers

\* user_types of send_daily_alerts
UserTypes(nt) ==
    IF nt.kind \in {"null", "empty"} THEN Tiers
    ELSE IF nt.kind = "list" THEN nt.items
    ELSE <<"MUITO CRITICO">>

RECURSIVE Extend(_, _)
\* contact_products.extend(products_map[p_type]) for the known p_types
Extend(types, pm) ==
    IF types = <<>> THEN <<>>
    ELSE LET t == types[Len(types)]
             before == Extend(SubSeq(types, 1, Len(types) - 1), pm)
         IN IF t \in DOMAIN pm THEN before \o pm[t] ELSE before

ContactProducts(phone, pm) == Uniq(Extend(UserTypes(phone.notification_types), pm))

\* slip: the slice keeps the item at its stop index
SliceInclusive(s, i, j) == SubSeq(s, i + 1, Min(j + 1, Len(s)))

\* s[i:j] for 0 <= i <= j
Slice(s, i, j) == SubSeq(s, i + 1, Min(j, Len(s)))

RECURSIVE ChunksFrom(_, _, _)
\* the list comprehension from index i on: for i in range(i, len, cap)
ChunksFrom(products, cap, i) ==
    IF i >= Len(products) THEN <<>>
    ELSE <<Slice(products, i, i + cap)>> \o ChunksFrom(products, cap, i + cap)

\* [products[i:i + cap] for i in range(0, len(products), cap)]
Chunks(products, cap) == ChunksFrom(products, cap, 0)

\* slip: the status filter is missing, a failed record counts as notified
WasNotifiedTodayAnyStatus(L, phone, today) ==
    \E row \in L : /\ row.phone = phone
                   /\ row.direction = "outbound"
                   /\ row.day = today

\* _was_notified_today
WasNotifiedToday(L, phone, today) ==
    \E row \in L : /\ row.phone = phone
                   /\ row.status = "sent"
                   /\ row.direction = "outbound"
                   /\ row.day = today

\* message=message[:500] + "..." if len(message) > 500 else message
\* (send_daily_alerts and send_client_alerts)
LogMessage(message) ==
    IF Len(message) > 500 THEN Slice(message, 0, 500) \o <<".", ".", ".">>
    ELSE message

\* message=message[:500] (send_message_to_number)
AdhocLogMessage(message) == Slice(message, 0, 500)

\* log.error = str(e)[:500]
LogError(text) == Slice(text, 0, 500)

\* ----------------------------------------------- client_notification_service
StripNonDigits(raw) == SelectSeq(raw, LAMBDA ch : ch \in Digits)

\* slip: 13 digits count as too long
normalize_phone_TooLong12(raw) ==
    LET digits == StripNonDigits(raw)
        n == Len(digits)
    IN  IF raw = <<>> THEN <<>>
        ELSE IF n < 10 THEN <<>>
        ELSE IF n > 12 THEN <<>>
        ELSE IF n >= 12 /\ digits[1] = "5" /\ digits[2] = "5" THEN digits
        ELSE IF n >= 10 /\ n <= 11 THEN <<"5", "5">> \o digits
        ELSE <<>>

\* normalize_phone; None is the empty string
normalize_phone(raw) ==
    LET digits == StripNonDigits(raw)
        n == Len(digits)
    IN  IF raw = <<>> THEN <<>>
        ELSE IF n < 10 THEN <<>>
        ELSE IF n > 13 THEN <<>>
        ELSE IF n >= 12 /\ digits[1] = "5" /\ digits[2] = "5" THEN digits
        ELSE IF n >= 10 /\ n <= 11 THEN <<"5", "5">> \o digits
        ELSE <<>>

\* _was_client_notified_today (evaluated when the class has the column)
WasClientNotifiedToday(L, phone, today) ==
    \E row \in L : /\ row.phone = phone
                   /\ row.status = "sent"
                   /\ row.notification_type = "client"
                   /\ row.day = today

ClientProducts(pm) == pm["MUITO CRITICO"] \o pm["CRITICO"] \o pm["ATENCAO"]

\* ------------------------------------------------------------- formatters
\* no "Parte x de n" line in the message
NoHeader == [shown |-> FALSE, part |-> 0, of |-> 0]

\* slip: the part is shown as counted from 0
PartHeaderFromZero(part, total_parts) ==
    IF total_parts > 1
    THEN [shown |-> TRUE, part |-> part, of |-> total_parts]
    ELSE NoHeader

\* if total_parts > 1: lines.append(f"Parte {part + 1} de {total_parts}")
PartHeader(part, total_parts) ==
    IF total_parts > 1
    THEN [shown |-> TRUE, part |-> part + 1, of |-> total_parts]
    ELSE NoHeader

\* format_critical_products_message: the part header and, for each product,
\* the number it is shown with (enumerate(products, start_index))
format_critical_products_message(products, part, total_parts, start_index) ==
    [header |-> PartHeader(part, total_parts),
     items |-> [j \in 1..Len(products) |-> <<start_index + j - 1, products[j]>>]]

\* format_client_products_message (enumerate(products, 1))
format_client_products_message(products, part, total_parts) ==
    [header |-> PartHeader(part, total_parts),
     items |-> [j \in 1..Len(products) |-> <<j, products[j]>>]]

\* send_daily_alerts: the messages of a payload, one per chunk
VendorMessages(products) ==
    LET chunks == Chunks(products, PRODUCTS_PER_MESSAGE)
    IN  [c \in 1..Len(chunks) |->
            format_critical_products_message(
                chunks[c], c - 1, Len(chunks),
                ((c - 1) * PRODUCTS_PER_MESSAGE) + 1)]

\* send_client_alerts: the messages of the product list, one per chunk
ClientMessages(products) ==
    LET chunks == Chunks(products, CLIENT_PRODUCTS_PER_MESSAGE)
    IN  [c \in 1..Len(chunks) |->
            format_client_products_message(chunks[c], c - 1, Len(chunks))]

\* ------------------------------------------------------- coroutine state
NoLog == [phone |-> <<>>, status |-> "none"]

\* A caller that is not inside any service call
Idle == [pc |-> "idle", kind |-> "none", id |-> 0, force |-> FALSE,
         i |-> 0, k |-> 0, message_count |-> 0, pause |-> "none",
         attempt |-> 0, last_error |-> "none", wait |-> 0,
         log |-> NoLog, sent_count |-> 0, skipped_count |-> 0,
         failed_count |-> 0, no_phone_count |-> 0, errors |-> 0,
         result |-> "none", error |-> "none", deduped |-> {}, sends |-> {},
         via |-> "service", header |-> NoHeader]

\* an exception leaves the service call; the Session's pending log is lost
Raise(s, exc) == [s EXCEPT !.pc = "raised", !.result = exc, !.log = NoLog]

\* slip: the is_active filter is missing from the query
ActivePhonesUnfiltered == phone_numbers

\* db.query(PhoneNumber).filter(PhoneNumber.is_active == True).all()
ActivePhones == SelectSeq(phone_numbers, LAMBDA c : c.is_active)

\* slip: _apply_rate_limit sleeps without counting the message
CallSendTextNoCount(s) ==
    [s EXCEPT !.pc = "rate",
              !.pause = PauseKind(s.message_count),
              !.attempt = 0, !.last_error = "none", !.wait = 0,
              !.sends = @ \cup {<<s.i, s.k>>}]

\* client.send_text(...) up to its first await: _apply_rate_limit
\* increments the counter and goes to sleep
CallSendText(s) ==
    [s EXCEPT !.pc = "rate",
              !.message_count = @ + 1,
              !.pause = PauseKind(s.message_count + 1),
              !.attempt = 0, !.last_error = "none", !.wait = 0,
              !.sends = @ \cup {<<s.i, s.k>>}]

\* log = NotificationLog(status="pending", ...); db.add(log); send_text(...)
BeginChunk(s, i, k, phone) ==
    CallSendText([s EXCEPT !.i = i, !.k = k,
                           !.log = [phone |-> phone, status |-> "pending"]])

\* send_daily_alerts: format chunk k of contact i, add its log, send it
VendorBeginChunk(s, i, k, phone) ==
    [BeginChunk(s, i, k, phone) EXCEPT
        !.header = VendorMessages(
                       ContactProducts(ActivePhones[i], products_map))[k + 1].header]

\* send_client_alerts: format chunk k, add its log, send it
ClientBeginChunk(s, i, k, phone) ==
    [BeginChunk(s, i, k, phone) EXCEPT
        !.header = ClientMessages(ClientProducts(products_map))[k + 1].header]

\* bookkeeping: the contacts whose dedup query, made without force, was
\* true when the run reached them
Reached(s, i, notified) ==
    [s EXCEPT !.deduped = IF notified THEN @ \cup {i} ELSE @]

\* slip: the dedup test applied to forced runs only
SkipsNotifiedForced(force, L, number, today) ==
    force /\ WasNotifiedToday(L, number, today)

\* slip: the force argument is not consulted
SkipsNotifiedIgnoringForce(force, L, number, today) ==
    WasNotifiedToday(L, number, today)

\* if not force and _was_notified_today(db, phone.number): skip the contact
SkipsNotified(force, L, number, today) ==
    ~force /\ WasNotifiedToday(L, number, today)

RECURSIVE ForPhones(_, _, _, _)
\* for phone in phone_numbers, from the i-th contact on, up to the first
\* await (inside send_text) or to the return of the summary
ForPhones(s, i, L, today) ==
    IF i > Len(ActivePhones)
    THEN [s EXCEPT !.pc = "done", !.result = "summary", !.i = i, !.k = 0]
    ELSE LET phone == ActivePhones[i]
             contact_products == ContactProducts(phone, products_map)
         IN  IF contact_products = <<>>
             THEN ForPhones([s EXCEPT !.skipped_count = @ + 1], i + 1, L, today)
             ELSE IF ~s.force /\ ~store_up
             THEN Raise([s EXCEPT !.i = i], "StoreError")
             ELSE LET s1 == Reached(s, i, ~s.force /\ WasNotifiedToday(L, phone.number, today))
                  IN  IF SkipsNotified(s.force, L, phone.number, today)
                      THEN ForPhones([s1 EXCEPT !.skipped_count = @ + 1],
                                     i + 1, L, today)
                      ELSE VendorBeginChunk(s1, i, 0, phone.number)

\* chunks of the contact the vendor run is at
VendorChunks(s) ==
    Chunks(ContactProducts(ActivePhones[s.i], products_map), PRODUCTS_PER_MESSAGE)

\* the row db.commit() inserts for the run's log object; error is TRUE iff
\* log.error holds the text of the exception
Row(s, status, today, ntype) ==
    [phone |-> s.log.phone, status |-> status, direction |-> "outbound",
     day |-> today, error |-> (status = "failed"), notification_type |-> ntype,
     origin |-> s.kind, id |-> s.id, rcpt |-> s.i, chunk |-> s.k]

\* slip: no try/except around send_text, a failed send leaves the run
VendorAfterSendNoExcept(s, ok, L, today) ==
    IF ~ok THEN [ledger |-> L, run |-> Raise(s, "Exception")]
    ELSE LET L2 == L \cup {Row(s, "sent", today, "")}
             s2 == [s EXCEPT !.log = NoLog, !.sent_count = @ + 1]
         IN  [ledger |-> L2,
              run |-> IF s.k + 1 < Len(VendorChunks(s))
                      THEN VendorBeginChunk(s2, s.i, s.k + 1, s.log.phone)
                      ELSE ForPhones(s2, s.i + 1, L2, today)]

\* send_daily_alerts from the return (ok) or raise (~ok) of send_text to the
\* next await: set log.status, count, db.commit(), next chunk or contact
VendorAfterSend(s, ok, L, today) ==
    LET row == Row(s, IF ok THEN "sent" ELSE "failed", today, "")
        L2 == L \cup {row}
        s2 == [s EXCEPT !.log = NoLog,
                        !.sent_count = IF ok THEN @ + 1 ELSE @,
                        !.errors = IF ok THEN @ ELSE @ + 1]
    IN  IF ~store_up THEN [ledger |-> L, run |-> Raise(s, "StoreError")]
        ELSE
        [ledger |-> L2,
         run |-> IF s.k + 1 < Len(VendorChunks(s))
                 THEN VendorBeginChunk(s2, s.i, s.k + 1, s.log.phone)
                 ELSE ForPhones(s2, s.i + 1, L2, today)]

\* send_daily_alerts from its call to its first await or early return
VendorEntry(id, force, L, today) ==
    LET s == [Idle EXCEPT !.kind = "vendor", !.id = id, !.force = force]
    IN  IF ~store_up THEN Raise(s, "StoreError")
        ELSE IF ~upload THEN [s EXCEPT !.pc = "done", !.result = "no_upload"]
        ELSE IF ActivePhones = <<>>
        THEN [s EXCEPT !.pc = "done", !.result = "no_phones"]
        ELSE ForPhones(s, 1, L, today)

ClientChunks == Chunks(ClientProducts(products_map), CLIENT_PRODUCTS_PER_MESSAGE)

RECURSIVE ForClients(_, _, _, _)
\* for c in inactive_clients, from the i-th client on, up to the first
\* await, the return of the summary, or an exception
ForClients(s, i, L, today) ==
    IF i > Len(clients)
    THEN [s EXCEPT !.pc = "done", !.result = "summary", !.i = i, !.k = 0]
    ELSE LET phone == normalize_phone(clients[i])
         IN  IF phone = <<>>
             THEN ForClients([s EXCEPT !.no_phone_count = @ + 1], i + 1, L, today)
             ELSE IF ~s.force /\ "notification_type" \notin NotificationLogColumns
             THEN Raise([s EXCEPT !.i = i], "AttributeError")
             ELSE IF ~s.force /\ ~store_up
             THEN Raise([s EXCEPT !.i = i], "StoreError")
             ELSE IF ~s.force /\ WasClientNotifiedToday(L, phone, today)
             THEN ForClients([Reached(s, i, TRUE) EXCEPT !.skipped_count = @ + 1],
                             i + 1, L, today)
             ELSE IF "notification_type" \notin NotificationLogColumns
             THEN Raise([s EXCEPT !.i = i], "TypeError")
             ELSE ClientBeginChunk(s, i, 0, phone)

\* send_client_alerts from the return or raise of send_text to the next await
ClientAfterSend(s, ok, L, today) ==
    LET row == Row(s, IF ok THEN "sent" ELSE "failed", today, "client")
        L2 == L \cup {row}
        s2 == [s EXCEPT !.log = NoLog,
                        !.sent_count = IF ok THEN @ + 1 ELSE @,
                        !.failed_count = IF ok THEN @ ELSE @ + 1,
                        !.errors = IF ok THEN @ ELSE @ + 1]
    IN  IF ~store_up THEN [ledger |-> L, run |-> Raise(s, "StoreError")]
        ELSE
        [ledger |-> L2,
         run |-> IF s.k + 1 < Len(ClientChunks)
                 THEN IF "notification_type" \notin NotificationLogColumns
                      THEN Raise(s2, "TypeError")
                      ELSE ClientBeginChunk(s2, s.i, s.k + 1, s.log.phone)
                 ELSE ForClients(s2, s.i + 1, L2, today)]

\* send_client_alerts from its call to its first await, return or exception
ClientEntry(id, force, L, today) ==
    LET s == [Idle EXCEPT !.kind = "client", !.id = id, !.force = force]
    IN  IF ~store_up THEN Raise(s, "StoreError")
        ELSE IF ~upload THEN [s EXCEPT !.pc = "done", !.result = "no_upload"]
        ELSE IF ClientProducts(products_map) = <<>>
        THEN [s EXCEPT !.pc = "done", !.result = "no_products"]
        ELSE IF clients = <<>>
        THEN [s EXCEPT !.pc = "done", !.result = "no_clients"]
        ELSE ForClients(s, 1, L, today)

\* slip: the single-message path applies the vendor dedup check
AdhocEntrySkipsNotified(id, phone) ==
    IF WasNotifiedToday(ledger, phone, day)
    THEN [Idle EXCEPT !.kind = "adhoc", !.id = id, !.pc = "done",
                      !.result = "skipped"]
    ELSE BeginChunk([Idle EXCEPT !.kind = "adhoc", !.id = id], 0, 0, phone)

\* send_message_to_number from its call to its first await
AdhocEntry(id, phone) ==
    BeginChunk([Idle EXCEPT !.kind = "adhoc", !.id = id], 0, 0, phone)

\* slip: the except branch does not set log.status
AdhocAfterSendKeepsPending(s, ok, L, today) ==
    [ledger |-> L \cup {Row(s, IF ok THEN "sent" ELSE "pending", today, "")},
     run |-> [s EXCEPT !.pc = "done", !.log = NoLog,
                       !.result = IF ok THEN "sent" ELSE "failed",
                       !.error = IF ok THEN "none" ELSE s.last_error]]

\* send_message_to_number from the return or raise of send_text to its return
AdhocAfterSend(s, ok, L, today) ==
    IF ~store_up THEN [ledger |-> L, run |-> Raise(s, "StoreError")]
    ELSE
    [ledger |-> L \cup {Row(s, IF ok THEN "sent" ELSE "failed", today, "")},
     run |-> [s EXCEPT !.pc = "done", !.log = NoLog,
                       !.result = IF ok THEN "sent" ELSE "failed",
                       !.error = IF ok THEN "none" ELSE s.last_error]]

\* slip: the pending log is inserted, and its final state inserted again
AfterSendTwoRows(s, ok, L, today) ==
    LET a == IF s.kind = "vendor" THEN VendorAfterSend(s, ok, L, today)
             ELSE IF s.kind = "client" THEN ClientAfterSend(s, ok, L, today)
             ELSE AdhocAfterSend(s, ok, L, today)
    IN  [a EXCEPT !.ledger = @ \cup {Row(s, "pending", today, "")}]

\* the service resumes after send_text returned (ok) or raised (~ok)
AfterSend(s, ok, L, today) ==
    IF s.kind = "vendor" THEN VendorAfterSend(s, ok, L, today)
    ELSE IF s.kind = "client" THEN ClientAfterSend(s, ok, L, today)
    ELSE AdhocAfterSend(s, ok, L, today)

\* the dict send_daily_alerts returns; errors is the length of the list
VendorSummary(s) ==
    IF s.result \in {"no_upload", "no_phones"}
    THEN [sent |-> 0, skipped |-> 0, message |-> s.result]
    ELSE [sent |-> s.sent_count, skipped |-> s.skipped_count,
          total_phones |-> Len(ActivePhones), errors |-> s.errors]

\* the dict send_client_alerts returns; errors is the length of errors[:20]
ClientSummary(s) ==
    IF s.result \in {"no_upload", "no_products", "no_clients"}
    THEN [sent |-> 0, skipped |-> 0, failed |-> 0, errors |-> 0,
          message |-> s.result]
    ELSE [sent |-> s.sent_count, skipped |-> s.skipped_count,
          failed |-> s.failed_count, no_phone |-> s.no_phone_count,
          total_inactive_clients |-> Len(clients),
          total_products |-> Len(ClientProducts(products_map)),
          errors |-> Min(s.errors, ERRORS_CAP)]

\* the value a dispatch run returned
Summary(s) == IF s.kind = "vendor" THEN VendorSummary(s) ELSE ClientSummary(s)

\* ------------------------------------------------------------------ actions
\* no function is applied on its own
NoCall == [fn |-> "none", args |-> <<>>, done |-> FALSE, ret |-> <<>>]

Config == <<upload, products_map, phone_numbers, clients, store_up>>

\* each caller makes one service call
CanStart(r) == run[r].pc = "idle"

\* a caller awaits send_daily_alerts(db, repo, force)
SendDailyAlerts(r, force) ==
    /\ CanStart(r)
    /\ run' = [run EXCEPT ![r] = VendorEntry(r, force, ledger, day)]
    /\ UNCHANGED <<ledger, day, Config, call>>

\* a caller awaits send_client_alerts(db, product_repo, client_repo, force)
SendClientAlerts(r, force) ==
    /\ CanStart(r)
    /\ run' = [run EXCEPT ![r] = ClientEntry(r, force, ledger, day)]
    /\ UNCHANGED <<ledger, day, Config, call>>

\* a caller awaits send_message_to_number(db, phone, message)
SendMessageToNumber(r, phone) ==
    /\ CanStart(r)
    /\ run' = [run EXCEPT ![r] = AdhocEntry(r, phone)]
    /\ UNCHANGED <<ledger, day, Config, call>>

\* send_text: the rate-limit sleep ends, the first POST is issued
RateLimitDone(r) ==
    /\ run[r].pc = "rate"
    /\ run' = [run EXCEPT ![r].pc = "http", ![r].attempt = 1]
    /\ UNCHANGED <<ledger, day, Config, call>>

\* send_text: the POST is answered 2xx; send_text returns to the service
HttpOk(r) ==
    /\ run[r].pc = "http"
    /\ LET a == AfterSend(run[r], TRUE, ledger, day)
       IN  /\ ledger' = a.ledger
           /\ run' = [run EXCEPT ![r] = a.run]
    /\ UNCHANGED <<day, Config, call>>

\* send_text: the POST fails with o; sleep, or raise after the last attempt
HttpError(r, o) ==
    /\ run[r].pc = "http"
    /\ o \in Outcomes \ {"ok"}
    /\ LET s == run[r]
           wait == ExtraWait(o, s.attempt) + RetrySleep(s.attempt)
           s2 == [s EXCEPT !.last_error = o, !.wait = wait]
       IN  IF wait > 0 \/ TriesAgain(o, s.attempt)
           THEN /\ run' = [run EXCEPT ![r] = [s2 EXCEPT !.pc = "sleep"]]
                /\ ledger' = ledger
           ELSE LET a == AfterSend(s2, FALSE, ledger, day)
                IN  /\ ledger' = a.ledger
                    /\ run' = [run EXCEPT ![r] = a.run]
    /\ UNCHANGED <<day, Config, call>>

\* send_text: the sleep after a failed attempt ends; next POST or raise
SleepDone(r) ==
    /\ run[r].pc = "sleep"
    /\ LET s == run[r]
       IN  IF TriesAgain(s.last_error, s.attempt)
           THEN /\ run' = [run EXCEPT ![r].pc = "http", ![r].attempt = @ + 1,
                                      ![r].wait = 0]
                /\ ledger' = ledger
           ELSE LET a == AfterSend([s EXCEPT !.wait = 0], FALSE, ledger, day)
                IN  /\ ledger' = a.ledger
                    /\ run' = [run EXCEPT ![r] = a.run]
    /\ UNCHANGED <<day, Config, call>>

\* midnight in the configured timezone
Midnight ==
    /\ day < MaxDay
    /\ day' = day + 1
    /\ UNCHANGED <<ledger, run, Config, call>>

Init ==
    /\ ledger = {}
    /\ day = 0
    /\ \E d \in Deployments :
          /\ upload = d[1]
          /\ products_map = d[2]
          /\ phone_numbers = d[3]
          /\ clients = d[4]
    /\ store_up = TRUE
    /\ run = [r \in Procs |-> Idle]
    /\ call = NoCall

Next ==
    \/ \E r \in Procs, force \in BOOLEAN : SendDailyAlerts(r, force)
    \/ \E r \in Procs, force \in BOOLEAN : SendClientAlerts(r, force)
    \/ \E r \in Procs, phone \in {P1} : SendMessageToNumber(r, phone)
    \/ \E r \in Procs : RateLimitDone(r)
    \/ \E r \in Procs : HttpOk(r)
    \/ \E r \in Procs, o \in Outcomes : HttpError(r, o)
    \/ \E r \in Procs : SleepDone(r)
    \/ Midnight

Spec == Init /\ [][Next]_vars

\* One vendor run over BATCH_SIZE + 1 contacts with one chunk each
BatchVendors ==
    [n \in 1..(BATCH_SIZE + 1) |->
        Contact(<<"5", "5", ToString(n)>>, TRUE, TypesList(<<"CRITICO">>))]

InitBatch ==
    /\ ledger = {}
    /\ day = 0
    /\ upload = TRUE
    /\ products_map = FullMap
    /\ phone_numbers = BatchVendors
    /\ clients = << >>
    /\ store_up = TRUE
    /\ run = [r \in Procs |-> Idle]
    /\ call = NoCall

NextBatch ==
    \/ \E force \in BOOLEAN : SendDailyAlerts(1, force)
    \/ RateLimitDone(1)
    \/ HttpOk(1)
    \/ \E o \in Outcomes : HttpError(1, o)
    \/ SleepDone(1)

SpecBatch == InitBatch /\ [][NextBatch]_vars

\* Parameters of the two orchestrators, and those without a default
SendDailyAlertsParams == {"db", "repo", "force"}
SendDailyAlertsRequired == {"db", "repo"}
SendClientAlertsParams == {"db", "product_repo", "client_repo", "force"}
SendClientAlertsRequired == {"db", "product_repo", "client_repo"}

\* Python binds a call's arguments: every parameter without a default is
\* given and every keyword names a parameter; otherwise TypeError
Binds(params, required, given) == required \subseteq given /\ given \subseteq params

\* the call never entered the coroutine's body
CallFailed(kind, id, force, via) ==
    [Idle EXCEPT !.kind = kind, !.id = id, !.force = force, !.via = via,
                 !.pc = "raised", !.result = "TypeError"]

\* POST /api/notifications/trigger: send_daily_alerts(db, force=force)
TriggerNotifications(r, force) ==
    /\ CanStart(r)
    /\ run' = [run EXCEPT ![r] =
          IF Binds(SendDailyAlertsParams, SendDailyAlertsRequired, {"db", "force"})
          THEN [VendorEntry(r, force, ledger, day) EXCEPT !.via = "trigger"]
          ELSE CallFailed("vendor", r, force, "trigger")]
    /\ UNCHANGED <<ledger, day, Config, call>>

\* trigger_notifications: the status of the response
TriggerResponse(s) ==
    IF s.pc = "raised" THEN "500"
    ELSE IF s.pc = "done" THEN "200"
    ELSE "none"

\* periodic_alert_job: send_daily_alerts(db, repo)
PeriodicAlertJob(r) ==
    /\ CanStart(r)
    /\ run' = [run EXCEPT ![r] =
          IF Binds(SendDailyAlertsParams, SendDailyAlertsRequired, {"db", "repo"})
          THEN [VendorEntry(r, FALSE, ledger, day) EXCEPT !.via = "vendor_job"]
          ELSE CallFailed("vendor", r, FALSE, "vendor_job")]
    /\ UNCHANGED <<ledger, day, Config, call>>

\* daily_client_alert_job:
\* send_client_alerts(db, product_repo, client_repo, limit=100)
DailyClientAlertJob(r) ==
    /\ CanStart(r)
    /\ run' = [run EXCEPT ![r] =
          IF Binds(SendClientAlertsParams, SendClientAlertsRequired,
                   {"db", "product_repo", "client_repo", "limit"})
          THEN [ClientEntry(r, FALSE, ledger, day) EXCEPT !.via = "client_job"]
          ELSE CallFailed("client", r, FALSE, "client_job")]
    /\ UNCHANGED <<ledger, day, Config, call>>

\* The callers of the orchestrators: the manual-trigger endpoint and the
\* two scheduler jobs
NextTriggers ==
    \/ \E r \in Procs, force \in BOOLEAN : TriggerNotifications(r, force)
    \/ \E r \in Procs : PeriodicAlertJob(r)
    \/ \E r \in Procs : DailyClientAlertJob(r)
    \/ \E r \in Procs : RateLimitDone(r)
    \/ \E r \in Procs : HttpOk(r)
    \/ \E r \in Procs, o \in Outcomes : HttpError(r, o)
    \/ \E r \in Procs : SleepDone(r)

SpecTriggers == Init /\ [][NextTriggers]_vars

\* the database stops answering: queries and commits raise
StoreDown ==
    /\ store_up
    /\ store_up' = FALSE
    /\ UNCHANGED <<ledger, day, upload, products_map, phone_numbers, clients,
                   run, call>>

\* the database answers again
StoreUp ==
    /\ ~store_up
    /\ store_up' = TRUE
    /\ UNCHANGED <<ledger, day, upload, products_map, phone_numbers, clients,
                   run, call>>

\* One dispatch run over a database that may fail at any moment
InitStore ==
    /\ ledger = {}
    /\ day = 0
    /\ upload = TRUE
    /\ products_map = FullMap
    /\ phone_numbers \in {TwoVendors, MixedVendors}
    /\ clients = SomeClients
    /\ store_up = TRUE
    /\ run = [r \in Procs |-> Idle]
    /\ call = NoCall

NextStore ==
    \/ \E force \in BOOLEAN : SendDailyAlerts(1, force)
    \/ \E force \in BOOLEAN : SendClientAlerts(1, force)
    \/ SendMessageToNumber(2, P1)
    \/ \E r \in Procs : RateLimitDone(r)
    \/ \E r \in Procs : HttpOk(r)
    \/ \E r \in Procs, o \in Outcomes : HttpError(r, o)
    \/ \E r \in Procs : SleepDone(r)
    \/ StoreDown
    \/ StoreUp

SpecStore == InitStore /\ [][NextStore]_vars

\* Two vendor runs back to back on one day: the second is started when the
\* first has returned
InitTwice ==
    /\ ledger = {}
    /\ day = 0
    /\ upload = TRUE
    /\ products_map = FullMap
    /\ phone_numbers \in {TwoVendors, MixedVendors}
    /\ clients = << >>
    /\ store_up = TRUE
    /\ run = [r \in Procs |-> Idle]
    /\ call = NoCall

SendDailyAlertsAgain(force) ==
    /\ run[1].pc = "done"
    /\ SendDailyAlerts(2, force)

NextTwice ==
    \/ \E force \in BOOLEAN : SendDailyAlerts(1, force)
    \/ \E force \in BOOLEAN : SendDailyAlertsAgain(force)
    \/ \E r \in Procs : RateLimitDone(r)
    \/ \E r \in Procs : HttpOk(r)
    \/ \E r \in Procs, o \in Outcomes : HttpError(r, o)
    \/ \E r \in Procs : SleepDone(r)

SpecTwice == InitTwice /\ [][NextTwice]_vars

\* Phone values: up to three leading digits 5 or 6 followed by 9s, bare or
\* written with separators or letters, and the docstring's examples
Nines(k) == [j \in 1..k |-> "9"]

DigitStrings ==
    {p \o Nines(k) : p \in UNION {[1..m -> {"5", "6"}] : m \in 0..3},
                      k \in 0..(MaxPhoneLen - 3)}

Written(d) ==
    {d,
     <<"+">> \o d,
     <<" ">> \o d \o <<" ">>,
     IF Len(d) < 6 THEN <<"(">> \o d \o <<")">>
     ELSE <<"(">> \o SubSeq(d, 1, 2) \o <<")", " ">> \o SubSeq(d, 3, Len(d) - 4)
              \o <<"-">> \o SubSeq(d, Len(d) - 3, Len(d)),
     <<"V">> \o d}

Examples ==
    {<<"6","6","9","9","6","1","0","9","7","9","7">>,
     <<"5","5","6","6","9","9","9","5","5","7","7","3","7">>,
     <<"0","6","5","9","2","4","1","9","8">>,
     <<"V","E","R","I","F","I","C","A","R">>}

PhoneInputs == UNION {Written(d) : d \in DigitStrings} \cup Examples

INVALID_PHONE_VALUES == {<<"V","E","R","I","F","I","C","A","R">>, <<>>}

\* get_inactive_clients over one client row with this celular
InactiveClients(celular) ==
    IF celular \in INVALID_PHONE_VALUES THEN <<>> ELSE <<celular>>

\* A phone value is normalized, once and again, by normalize_phone or by
\* send_text, and a client run is made over the client that has it
InitPhone ==
    /\ ledger = {}
    /\ day = 0
    /\ upload = TRUE
    /\ products_map = FullMap
    /\ phone_numbers = << >>
    /\ store_up = TRUE
    /\ run = [r \in Procs |-> Idle]
    /\ \E x \in PhoneInputs, fn \in {"normalize_phone", "send_text"} :
          /\ clients = InactiveClients(x)
          /\ call = [fn |-> fn, args |-> <<x>>, done |-> FALSE, ret |-> <<>>]

\* the value the next application is given: the input, then the last result
Operand == IF call.ret = <<>> THEN call.args[1] ELSE call.ret[Len(call.ret)]

\* phone = normalize_phone(c.celular)
NormalizePhone ==
    /\ call.fn = "normalize_phone" /\ ~call.done
    /\ call' = [call EXCEPT !.ret = Append(@, normalize_phone(Operand)),
                            !.done = (Len(call.ret) = 1)]
    /\ UNCHANGED <<ledger, day, run, Config>>

\* send_text(phone, ...): the number put on the wire
WirePhone ==
    /\ call.fn = "send_text" /\ ~call.done
    /\ call' = [call EXCEPT !.ret = Append(@, CleanPhone(Operand)),
                            !.done = (Len(call.ret) = 1)]
    /\ UNCHANGED <<ledger, day, run, Config>>

NextPhone ==
    \/ NormalizePhone
    \/ WirePhone
    \/ \E force \in BOOLEAN : SendClientAlerts(1, force)

SpecPhone == InitPhone /\ [][NextPhone]_vars

\* One vendor run over ERRORS_CAP + 1 contacts with one chunk each, while
\* the gateway is unreachable: every POST times out
ManyVendors ==
    [n \in 1..(ERRORS_CAP + 1) |->
        Contact(<<"5", "5", ToString(n)>>, TRUE, TypesList(<<"CRITICO">>))]

InitMany ==
    /\ ledger = {}
    /\ day = 0
    /\ upload = TRUE
    /\ products_map = FullMap
    /\ phone_numbers = ManyVendors
    /\ clients = << >>
    /\ store_up = TRUE
    /\ run = [r \in Procs |-> Idle]
    /\ call = NoCall

NextMany ==
    \/ \E force \in BOOLEAN : SendDailyAlerts(1, force)
    \/ RateLimitDone(1)
    \/ HttpError(1, "timeout")
    \/ SleepDone(1)

SpecMany == InitMany /\ [][NextMany]_vars

\* The messages a channel formats for a product list of every length up to
\* MaxLen
InitFormat ==
    /\ ledger = {}
    /\ day = 0
    /\ upload = FALSE
    /\ products_map = EmptyMap
    /\ phone_numbers = << >>
    /\ clients = << >>
    /\ store_up = TRUE
    /\ run = [r \in Procs |-> Idle]
    /\ \E n \in 0..MaxLen,
          fn \in {"format_critical_products_message",
                  "format_client_products_message"} :
          call = [fn |-> fn, args |-> <<Iota(n)>>, done |-> FALSE, ret |-> <<>>]

\* send_daily_alerts: split the payload and format every chunk
FormatVendorParts ==
    /\ call.fn = "format_critical_products_message" /\ ~call.done
    /\ call' = [call EXCEPT !.done = TRUE, !.ret = VendorMessages(call.args[1])]
    /\ UNCHANGED <<ledger, day, run, Config>>

\* send_client_alerts: split the product list and format every chunk
FormatClientParts ==
    /\ call.fn = "format_client_products_message" /\ ~call.done
    /\ call' = [call EXCEPT !.done = TRUE, !.ret = ClientMessages(call.args[1])]
    /\ UNCHANGED <<ledger, day, run, Config>>

NextFormat == FormatVendorParts \/ FormatClientParts

SpecFormat == InitFormat /\ [][NextFormat]_vars

\* Product snapshots whose tier queries return disjoint lists, lists that
\* share a product, and an empty highest tier
DisjointMap == [t \in Range(Tiers) |->
                  IF t = "MUITO CRITICO" THEN <<1, 2>>
                  ELSE IF t = "CRITICO" THEN <<3>>
                  ELSE <<4, 5>>]

SharingMap == [t \in Range(Tiers) |->
                 IF t = "MUITO CRITICO" THEN <<1, 2>>
                 ELSE IF t = "CRITICO" THEN <<3>>
                 ELSE <<2, 4>>]

NoHighestMap == [t \in Range(Tiers) |->
                   IF t = "MUITO CRITICO" THEN <<>>
                   ELSE IF t = "CRITICO" THEN <<3>>
                   ELSE <<4>>]

\* notification_types values: unusable ones and every list of at most
\* MaxTypes tier names, the expired tier's included
TypeNames == {"MUITO CRITICO", "CRITICO", "ATENCAO", "VENCIDO"}

Settings ==
    {TypesNull, TypesEmpty, TypesNotList, TypesBad}
    \cup {TypesList(l) : l \in UNION {[1..m -> TypeNames] : m \in 0..MaxTypes}}

\* The interest set and the payload of a contact, for every setting
InitTypes ==
    /\ ledger = {}
    /\ day = 0
    /\ upload = TRUE
    /\ products_map = EmptyMap
    /\ phone_numbers = << >>
    /\ clients = << >>
    /\ store_up = TRUE
    /\ run = [r \in Procs |-> Idle]
    /\ \E nt \in Settings, pm \in {DisjointMap, SharingMap, NoHighestMap},
          fn \in {"user_types", "contact_products"} :
          call = [fn |-> fn, args |-> <<nt, pm>>, done |-> FALSE, ret |-> <<>>]

\* send_daily_alerts: user_types of the contact
ParseTypes ==
    /\ call.fn = "user_types" /\ ~call.done
    /\ call' = [call EXCEPT !.done = TRUE, !.ret = UserTypes(call.args[1])]
    /\ UNCHANGED <<ledger, day, run, Config>>

\* send_daily_alerts: contact_products of the contact
BuildPayload ==
    /\ call.fn = "contact_products" /\ ~call.done
    /\ call' = [call EXCEPT
          !.done = TRUE,
          !.ret = ContactProducts(Contact(P1, TRUE, call.args[1]), call.args[2])]
    /\ UNCHANGED <<ledger, day, run, Config>>

NextTypes == ParseTypes \/ BuildPayload

SpecTypes == InitTypes /\ [][NextTypes]_vars

\* Three inactive clients whose celular values name one number, written
\* bare, with the country code, and with separators
DuplicateClients ==
    << <<"6","6","9","9","6","1","0","9","7","9","7">>,
       <<"5","5","6","6","9","9","6","1","0","9","7","9","7">>,
       <<"(","6","6",")"," ","9","9","6","1","0","-","9","7","9","7">> >>

\* Runs of both channels over the duplicate clients and two vendor contacts
InitDuplicates ==
    /\ ledger = {}
    /\ day = 0
    /\ upload = TRUE
    /\ products_map = FullMap
    /\ phone_numbers = TwoVendors
    /\ clients = DuplicateClients
    /\ store_up = TRUE
    /\ run = [r \in Procs |-> Idle]
    /\ call = NoCall

SpecDuplicates == InitDuplicates /\ [][Next]_vars

\* A text of n characters
Text(n) == [j \in 1..n |-> "m"]

\* The message and the error text a write path stores, for texts of every
\* length up to MaxText
InitPreview ==
    /\ ledger = {}
    /\ day = 0
    /\ upload = FALSE
    /\ products_map = EmptyMap
    /\ phone_numbers = << >>
    /\ clients = << >>
    /\ store_up = TRUE
    /\ run = [r \in Procs |-> Idle]
    /\ \E n \in 0..MaxText,
          fn \in {"send_daily_alerts", "send_client_alerts",
                  "send_message_to_number", "error"} :
          call = [fn |-> fn, args |-> <<Text(n)>>, done |-> FALSE, ret |-> <<>>]

\* log = NotificationLog(message=..., ...)
StoreMessage ==
    /\ call.fn \in {"send_daily_alerts", "send_client_alerts",
                    "send_message_to_number"}
    /\ ~call.done
    /\ call' = [call EXCEPT !.done = TRUE,
                            !.ret = IF call.fn = "send_message_to_number"
                                    THEN AdhocLogMessage(call.args[1])
                                    ELSE LogMessage(call.args[1])]
    /\ UNCHANGED <<ledger, day, run, Config>>

\* log.error = str(e)[:500]
StoreError ==
    /\ call.fn = "error" /\ ~call.done
    /\ call' = [call EXCEPT !.done = TRUE, !.ret = LogError(call.args[1])]
    /\ UNCHANGED <<ledger, day, run, Config>>

NextPreview == StoreMessage \/ StoreError

SpecPreview == InitPreview /\ [][NextPreview]_vars

\* The splitting of a payload list, applied to lists of every length up to
\* MaxLen and every cap up to MaxCap
InitSplit ==
    /\ ledger = {}
    /\ day = 0
    /\ upload = FALSE
    /\ products_map = EmptyMap
    /\ phone_numbers = << >>
    /\ clients = << >>
    /\ store_up = TRUE
    /\ run = [r \in Procs |-> Idle]
    /\ \E n \in 0..MaxLen, cap \in 1..MaxCap :
          call = [fn |-> "chunks", args |-> <<Iota(n), cap>>,
                  done |-> FALSE, ret |-> <<>>]

\* chunks = [products[i:i + cap] for i in range(0, len(products), cap)]
Split ==
    /\ call.fn = "chunks" /\ ~call.done
    /\ call' = [call EXCEPT !.done = TRUE,
                            !.ret = Chunks(call.args[1], call.args[2])]
    /\ UNCHANGED <<ledger, day, run, Config>>

NextSplit == Split

SpecSplit == InitSplit /\ [][NextSplit]_vars

\* ------------------------------------------------------------------ properties
Dispatch(r) == run[r].kind \in {"vendor", "client"}

InCall(r) == run[r].pc \in {"rate", "http", "sleep"}

RowsOf(r, i) == {row \in ledger : row.id = r /\ row.rcpt = i}

SendsTo(r, i) == {c \in run[r].sends : c[1] = i}

\* C1: in a dispatch run with force=false, a recipient whose dedup check was
\* true when the run reached it gets no gateway send call and no ledger
\* record from that run.
C1_NotifiedGetsNothing ==
    \A r \in Procs :
        (Dispatch(r) /\ ~run[r].force) =>
            \A i \in run[r].deduped :
                /\ SendsTo(r, i) = {}
                /\ RowsOf(r, i) = {}
                /\ ~(run[r].i = i /\ run[r].log # NoLog)

\* a run without force has returned its summary after skipping a notified
\* contact, while the ledger holds the earlier run's sent record
C1_Witness ==
    \E r \in Procs :
        /\ run[r].kind = "vendor" /\ ~run[r].force /\ run[r].pc = "done"
        /\ run[r].deduped # {}
        /\ \E row \in ledger : row.id # r /\ row.status = "sent"

\* C2: when no caller passes force=true, the ledger holds for each
\* (recipient phone, category) and each day at most one record with status
\* sent.
C2_OneSentPerDay ==
    (\A r \in Procs : ~run[r].force) =>
        \A a, b \in ledger :
            (/\ a.origin \in {"vendor", "client"}
             /\ a.origin = b.origin /\ a.phone = b.phone /\ a.day = b.day
             /\ a.status = "sent" /\ b.status = "sent") => a = b

\* C3: of two runs of the same channel with force=false, no recipient gets
\* the same day's alert from both.
C3_NoDoubleSend ==
    \A r1, r2 \in Procs :
        (/\ r1 # r2 /\ Dispatch(r1) /\ run[r1].kind = run[r2].kind
         /\ ~run[r1].force /\ ~run[r2].force) =>
            \A a, b \in ledger :
                (/\ a.id = r1 /\ b.id = r2
                 /\ a.status = "sent" /\ b.status = "sent"
                 /\ a.day = b.day) => a.phone # b.phone

\* C4: the vendor dedup check of a phone is true iff the ledger holds a
\* record of that phone and of the vendor category with status sent and
\* today's date.
C4_CheckIsPerCategory ==
    \A phone \in {P1, P2} :
        WasNotifiedToday(ledger, phone, day) <=>
            \E row \in ledger : /\ row.phone = phone /\ row.origin = "vendor"
                                /\ row.status = "sent" /\ row.day = day

\* C5: while a gateway send call for a chunk is in progress, the store
\* holds a record with status pending for that recipient and chunk.
C5_PendingRowDuringCall ==
    \A r \in Procs :
        InCall(r) =>
            \E row \in ledger : /\ row.id = r /\ row.rcpt = run[r].i
                                /\ row.chunk = run[r].k
                                /\ row.status = "pending"

\* the rows of the chunk a caller's send_text call is for
RowsOfChunk(r, i, k) == {row \in ledger : row.id = r /\ row.rcpt = i /\ row.chunk = k}

\* the step of r ends its send_text call
EndsCall(r) ==
    /\ InCall(r)
    /\ run'[r] # run[r]
    /\ ~(run'[r].pc \in {"http", "sleep"} /\ run'[r].i = run[r].i /\ run'[r].k = run[r].k)

\* the step adds exactly one row, for r's current chunk, with this status
AddsOneRow(r, status) ==
    \E row \in ledger' :
        /\ row \notin ledger
        /\ ledger' = ledger \cup {row}
        /\ row.id = r /\ row.rcpt = run[r].i /\ row.chunk = run[r].k
        /\ row.status = status

C6_OnePerChunk ==
    \A r \in Procs :
        /\ \A c \in run[r].sends :
              Cardinality(RowsOfChunk(r, c[1], c[2])) =
                  IF InCall(r) /\ c = <<run[r].i, run[r].k>> THEN 0 ELSE 1
        /\ \A row \in ledger : row.id = r => <<row.rcpt, row.chunk>> \in run[r].sends

\* the step is a step of caller r inside its send_text call
StepInCall(r) == InCall(r) /\ run'[r] # run[r]

C6_Step ==
    \A r \in Procs :
        StepInCall(r) =>
            /\ HttpOk(r) => AddsOneRow(r, "sent")
            /\ ~EndsCall(r) => ledger' = ledger
            /\ (EndsCall(r) /\ ~HttpOk(r)) => AddsOneRow(r, "failed")

\* C6: every chunk a run processes gets exactly one ledger record, however
\* many HTTP attempts send_text makes: a failed attempt that is retried
\* writes nothing, and a success on any attempt (the third included) writes
\* the single record with status sent.
C6_OneRecordPerChunk == []C6_OnePerChunk /\ [][C6_Step]_vars

\* a chunk whose first two attempts failed was delivered by the third, and
\* its single record is sent
C6_Witness ==
    \E r \in Procs :
        /\ run[r].kind = "vendor" /\ run[r].pc = "done"
        /\ \E c \in run[r].sends :
              \E row \in RowsOfChunk(r, c[1], c[2]) : row.status = "sent"
        /\ run[r].attempt = 3 /\ run[r].last_error # "none"

\* C7: a send that fails after all retries is recorded as failed with error
\* text and never ends the run: no exception leaves a run that made a
\* gateway call, and a vendor run that returned its summary has a finalized
\* record for every chunk of every contact it did not skip.
C7_FailureDoesNotAbort ==
    \A r \in Procs :
        /\ run[r].pc = "raised" => (run[r].kind = "client" /\ run[r].sends = {})
        /\ \A row \in ledger :
              /\ row.status \in {"sent", "failed"}
              /\ row.error = (row.status = "failed")
        /\ (run[r].kind = "vendor" /\ run[r].result = "summary") =>
              \A i \in 1..Len(ActivePhones) :
                  LET products == ContactProducts(ActivePhones[i], products_map)
                      n == Len(Chunks(products, PRODUCTS_PER_MESSAGE))
                  IN  (products # <<>> /\ i \notin run[r].deduped) =>
                          \A k \in 0..(n - 1) :
                              /\ <<i, k>> \in run[r].sends
                              /\ RowsOfChunk(r, i, k) # {}

\* a vendor run returned its summary after a chunk failed and a later chunk
\* or contact was still processed
C7_Witness ==
    \E r \in Procs :
        /\ run[r].kind = "vendor" /\ run[r].result = "summary"
        /\ \E a, b \in ledger :
              /\ a.id = r /\ b.id = r
              /\ a.status = "failed" /\ a.error
              /\ (b.rcpt > a.rcpt \/ (b.rcpt = a.rcpt /\ b.chunk > a.chunk))

\* C8: after a permanent error (a 4xx other than 429) send_text makes no
\* further attempt and no backoff sleep: the call is over.
C8_PermanentNotRetried ==
    \A r \in Procs : run[r].last_error = "s400" => ~InCall(r)

C9_Attempts ==
    \A r \in Procs :
        /\ run[r].attempt <= 3
        /\ run[r].pc \in {"http", "sleep"} => run[r].attempt >= 1

\* the error a single-message send reports; a run's errors are not kept
Reports(r, cause) ==
    run[r].kind = "adhoc" => (run'[r].result = "failed" /\ run'[r].error = cause)

C9_Step ==
    \A r \in Procs :
        StepInCall(r) =>
            /\ (run[r].pc = "http" /\ HttpOk(r)) =>
                  (EndsCall(r) /\ AddsOneRow(r, "sent"))
            /\ (run[r].pc = "http" /\ ~EndsCall(r)) =>
                  (run'[r].pc = "sleep" /\ run'[r].attempt = run[r].attempt)
            /\ (run[r].pc = "http" /\ EndsCall(r) /\ ~HttpOk(r)) =>
                  /\ run[r].attempt = 3
                  /\ \E o \in Outcomes \ {"ok"} : HttpError(r, o) /\ Reports(r, o)
            /\ (run[r].pc = "sleep" /\ EndsCall(r)) =>
                  /\ run[r].attempt = 3
                  /\ Reports(r, run[r].last_error)

\* C9: a send_text call makes at most 3 HTTP attempts; it returns at the
\* first successful attempt; it raises only after the third attempt failed,
\* and the error it raises carries the cause of that last attempt.
C9_AtMostThreeAttempts == []C9_Attempts /\ [][C9_Step]_vars

\* a single-message send failed after three attempts whose causes differ,
\* and reports the last one
C9_Witness ==
    \E r \in Procs :
        /\ run[r].kind = "adhoc" /\ run[r].result = "failed"
        /\ run[r].attempt = 3 /\ run[r].error = "timeout"

\* C10: a send is preceded by the batch pause exactly when the number of
\* sends already made in the run is a positive multiple of 10 (so the 11th
\* send is, and the 10th is not).
C10_PauseAfterTenSends ==
    \A r \in Procs :
        run[r].pc = "rate" =>
            LET made == run[r].message_count - 1
            IN  (run[r].pause = "batch") <=> (made > 0 /\ made % 10 = 0)

C11_Counter ==
    \A r \in Procs :
        /\ run[r].message_count = Cardinality(run[r].sends)
        /\ run[r].pc = "rate" =>
              (run[r].attempt = 0 /\ <<run[r].i, run[r].k>> \in run[r].sends)
        /\ run[r].pc \in {"http", "sleep"} => run[r].attempt >= 1

C11_Step ==
    \A r \in Procs :
        (run'[r] # run[r]) =>
            /\ run[r].pc = "idle" => run[r].message_count = 0
            /\ run'[r].message_count \in
                  {run[r].message_count, run[r].message_count + 1}
            /\ (run'[r].pc = "rate") <=>
                  (run'[r].message_count = run[r].message_count + 1)
            /\ (run'[r].pc = "rate") <=> (run'[r].sends # run[r].sends)
            /\ run[r].pc = "rate" =>
                  (run'[r].pc = "http" /\ run'[r].attempt = 1)
            /\ (run'[r].pc = "http" /\ run'[r].attempt = 1) => run[r].pc = "rate"

\* C11: every send_text call starts with one rate-limit sleep, which ends
\* before the first POST, and no rate-limit sleep is entered except by a new
\* call; the message counter starts at 0, grows by one per call (not per
\* HTTP attempt, and also when the call fails) and never goes down.
C11_OneDelayPerCall == []C11_Counter /\ [][C11_Step]_vars

\* a vendor run is in the rate-limit sleep of its second call after its
\* first call failed on the third attempt
C11_Witness ==
    \E r \in Procs :
        /\ run[r].kind = "vendor" /\ run[r].pc = "rate"
        /\ run[r].message_count = 2
        /\ \E row \in ledger : row.id = r /\ row.status = "failed"

RECURSIVE Concat(_)
Concat(ss) == IF ss = <<>> THEN <<>> ELSE Head(ss) \o Concat(Tail(ss))

\* C12: splitting a list of L items with a cap of C >= 1 gives exactly
\* ceil(L/C) chunks of 1 to C items each, whose concatenation in order is
\* the list; 47 items with a cap of 20 give chunks of 20, 20 and 7 items.
C12_Splitting ==
    (call.fn = "chunks" /\ call.done) =>
        LET products == call.args[1]
            cap == call.args[2]
            L == Len(products)
            chunks == call.ret
        IN  /\ Len(chunks) = (L + cap - 1) \div cap
            /\ \A c \in 1..Len(chunks) :
                  Len(chunks[c]) >= 1 /\ Len(chunks[c]) <= cap
            /\ Concat(chunks) = products
            /\ (L = 47 /\ cap = 20) =>
                  [c \in 1..Len(chunks) |-> Len(chunks[c])] = <<20, 20, 7>>

\* 47 items were split with a cap of 20
C12_Witness ==
    /\ call.fn = "chunks" /\ call.done
    /\ Len(call.args[1]) = 47 /\ call.args[2] = 20
    /\ Len(call.ret) = 3

\* the active contacts with a non-empty payload, by position
WithPayload ==
    {i \in 1..Len(ActivePhones) :
        ContactProducts(ActivePhones[i], products_map) # <<>>}

\* the run made a send_text call for every chunk of contact i
SentAllChunks(r, i) ==
    \A k \in 0..(Len(Chunks(ContactProducts(ActivePhones[i], products_map),
                             PRODUCTS_PER_MESSAGE)) - 1) :
        <<i, k>> \in run[r].sends

\* C13 as stated: of two vendor runs back to back on one day, with
\* force=true both send to every recipient with a non-empty payload; with
\* force=false the second makes no gateway send call and counts every such
\* recipient as skipped.
C13_SecondRunAllSkipped ==
    /\ \A r \in Procs :
          (run[r].force /\ run[r].result = "summary") =>
              \A i \in WithPayload : SentAllChunks(r, i)
    /\ (run[2].kind = "vendor" /\ ~run[2].force) =>
          /\ run[2].sends = {}
          /\ run[2].result = "summary" =>
                (run[2].deduped = WithPayload
                 /\ run[2].skipped_count = Len(ActivePhones))

\* the first run delivered at least one chunk to contact i
Delivered(i) ==
    \E row \in ledger : /\ row.id = 1 /\ row.status = "sent"
                         /\ row.phone = ActivePhones[i].number

\* C13 amended: with force=true both runs send to every recipient with a
\* non-empty payload; with force=false the second run makes no gateway send
\* call to, and counts as skipped, every such recipient the first run
\* delivered at least one chunk to, and sends again to a recipient whose
\* chunks all failed in the first run.
C13_SecondRunSkipsDelivered ==
    /\ \A r \in Procs :
          (run[r].force /\ run[r].result = "summary") =>
              \A i \in WithPayload : SentAllChunks(r, i)
    /\ (run[2].kind = "vendor" /\ ~run[2].force) =>
          /\ \A i \in WithPayload :
                Delivered(i) => (SendsTo(2, i) = {} /\ RowsOf(2, i) = {})
          /\ run[2].result = "summary" =>
                /\ run[2].deduped = {i \in WithPayload : Delivered(i)}
                /\ \A i \in WithPayload : ~Delivered(i) => SentAllChunks(2, i)
                /\ run[2].skipped_count =
                      Len(ActivePhones) - Cardinality(WithPayload)
                      + Cardinality(run[2].deduped)

\* the second run, without force, returned after skipping the recipient the
\* first run delivered to and sending to the one whose send had failed
C13_Witness ==
    /\ run[2].kind = "vendor" /\ ~run[2].force /\ run[2].result = "summary"
    /\ run[2].deduped # {} /\ run[2].sends # {}

\* C14: a failing store operation (the dedup query, the insert or commit of
\* a record) aborts the recipient being handled only: no dispatch run ends
\* by raising the store's error.
C14_StoreFailureDoesNotAbort ==
    \A r \in Procs :
        (Dispatch(r) /\ run[r].i >= 1) =>
            ~(run[r].pc = "raised" /\ run[r].result = "StoreError")

\* C15: every request to the manual-trigger endpoint runs one vendor
\* dispatch with the request's force value and is answered with the run's
\* summary, never with an error response (the store is up here and gateway
\* errors are recorded per chunk).
C15_TriggerReturnsSummary ==
    \A r \in Procs :
        run[r].via = "trigger" =>
            /\ run[r].kind = "vendor"
            /\ TriggerResponse(run[r]) # "500"
            /\ TriggerResponse(run[r]) = "200" =>
                  run[r].result \in {"summary", "no_upload", "no_phones"}

\* C16: every firing of a scheduled trigger runs its channel's orchestrator
\* to the summary step: the interval trigger the vendor one with
\* force=false, the hourly trigger the client one, which sends to and
\* records with category client every inactive client with a valid phone
\* and no client alert sent today.
C16_JobsReachSummary ==
    \A r \in Procs :
        /\ run[r].via = "vendor_job" =>
              (run[r].kind = "vendor" /\ ~run[r].force /\ run[r].pc # "raised")
        /\ run[r].via = "client_job" =>
              /\ run[r].kind = "client" /\ run[r].pc # "raised"
              /\ run[r].result = "summary" =>
                    \A i \in 1..Len(clients) :
                        (normalize_phone(clients[i]) # <<>> /\ i \notin run[r].deduped) =>
                            /\ <<i, 0>> \in run[r].sends
                            /\ \E row \in RowsOf(r, i) :
                                  row.notification_type = "client"

\* C17: normalization is idempotent, for normalize_phone (a rejected value
\* is its own fixed point) and for the number send_text puts on the wire:
\* normalizing the result again gives the same result.
C17_Idempotent ==
    (call.fn \in {"normalize_phone", "send_text"} /\ Len(call.ret) = 2) =>
        call.ret[2] = call.ret[1]

\* an 11-digit number written with separators was normalized twice to the
\* same 13 digits
C17_Witness ==
    /\ call.fn = "normalize_phone" /\ Len(call.ret) = 2
    /\ Len(call.args[1]) > Len(StripNonDigits(call.args[1]))
    /\ Len(StripNonDigits(call.args[1])) = 11
    /\ Len(call.ret[2]) = 13

\* the digits d of a raw value, and the values without a usable d
DigitsOf(raw) == StripNonDigits(raw)

Rejected(raw) ==
    DigitsOf(raw) = <<>> \/ Len(DigitsOf(raw)) < 10 \/ Len(DigitsOf(raw)) > 13

C18_Function ==
    (call.fn = "normalize_phone" /\ call.ret # <<>>) =>
        LET raw == call.args[1]
            d == DigitsOf(raw)
            result == call.ret[1]
        IN  /\ Len(d) \in {10, 11} => result = <<"5", "5">> \o d
            /\ (Len(d) \in {12, 13} /\ StartsWith55(d)) => result = d
            /\ Rejected(raw) => result = <<>>
            /\ raw = <<"6","6","9","9","6","1","0","9","7","9","7">> =>
                  result = <<"5","5","6","6","9","9","6","1","0","9","7","9","7">>
            /\ raw = <<"5","5","6","6","9","9","9","5","5","7","7","3","7">> =>
                  result = raw
            /\ raw = <<"0","6","5","9","2","4","1","9","8">> => result = <<>>
            /\ raw = <<"V","E","R","I","F","I","C","A","R">> => result = <<>>

C18_Skipped ==
    (run[1].kind = "client" /\ clients # <<>> /\ Rejected(clients[1])) =>
        /\ ledger = {} /\ run[1].sends = {} /\ run[1].log = NoLog
        /\ run[1].pc = "done" /\ run[1].result = "summary"
        /\ run[1].no_phone_count = 1 /\ run[1].skipped_count = 0

Finalized(r, status) == {row \in ledger : row.id = r /\ row.status = status}

\* C19: the summary a dispatch run returns has a sent count equal to the
\* number of records the run finalized as sent and a failed count equal to
\* the number it finalized as failed.
C19_SummaryCounts ==
    \A r \in Procs :
        (Dispatch(r) /\ run[r].pc = "done") =>
            LET summary == Summary(run[r])
                failed == Cardinality(Finalized(r, "failed"))
            IN  /\ summary.sent = Cardinality(Finalized(r, "sent"))
                /\ "failed" \in DOMAIN summary => summary.failed = failed
                /\ failed > 0 => "failed" \in DOMAIN summary

C20_Statuses ==
    /\ \A row \in ledger : row.status \in {"sent", "failed"}
    /\ \A r \in Procs :
          /\ InCall(r) => run[r].log.status = "pending"
          /\ run[r].log # NoLog => run[r].log.status = "pending"
          /\ run[r].pc = "done" => run[r].log = NoLog

C20_Step ==
    /\ ledger \subseteq ledger'
    /\ \A row \in ledger' \ ledger :
          /\ InCall(row.id)
          /\ run[row.id].log = [phone |-> row.phone, status |-> "pending"]
          /\ row.rcpt = run[row.id].i /\ row.chunk = run[row.id].k
          /\ row.status \in {"sent", "failed"}
    /\ \A r \in Procs :
          (run[r].log # NoLog /\ run'[r].log # run[r].log /\ run'[r].pc # "raised") =>
              \E row \in ledger' \ ledger : row.id = r

\* C20: a record is created with status pending; its only change of status
\* is from pending to sent or to failed, made once, when the send returned
\* or raised; a sent or failed record never changes and no record is ever
\* deleted; when a run or a single-message send returns, none of its
\* records is pending.
C20_RecordLifecycle == []C20_Statuses /\ [][C20_Step]_vars

\* both callers have returned, one left a failed record and the other a
\* sent one
C20_Witness ==
    /\ \A r \in Procs : run[r].pc = "done"
    /\ \E a, b \in ledger :
          a.id = 1 /\ a.status = "failed" /\ b.id = 2 /\ b.status = "sent"
\* C21: on every write path the stored message text has at most 500
\* characters, whatever the length of the rendered message, and the stored
\* error text has at most 500 characters.
C21_StoredTextCapped ==
    (call.fn \in {"send_daily_alerts", "send_client_alerts",
                  "send_message_to_number", "error"} /\ call.done) =>
        Len(call.ret) <= 500
\* all records a caller's service call created
RowsBy(r) == {row \in ledger : row.id = r}

C22_OneRecordOneCall ==
    \A r \in Procs :
        run[r].kind = "adhoc" =>
            /\ run[r].pc # "raised"
            /\ run[r].sends = {<<0, 0>>} /\ run[r].message_count = 1
            /\ InCall(r) => RowsBy(r) = {}
            /\ ~InCall(r) =>
                  /\ run[r].pc = "done"
                  /\ run[r].result \in {"sent", "failed"}
                  /\ Cardinality(RowsBy(r)) = 1
                  /\ \A row \in RowsBy(r) :
                        row.status = run[r].result /\ row.phone = P1

C22_Step ==
    \A r \in Procs :
        (run[r].kind = "adhoc" /\ StepInCall(r) /\ EndsCall(r)) =>
            /\ HttpOk(r) => (run'[r].result = "sent" /\ AddsOneRow(r, "sent"))
            /\ ~HttpOk(r) =>
                  (run'[r].result = "failed" /\ AddsOneRow(r, "failed"))

\* C22: a single-message send creates exactly one record and makes exactly
\* one send_text call for the whole message, whatever the ledger holds for
\* the phone; the record is sent when the call succeeded and failed when it
\* failed, and the failure is returned as a failed result, not raised.
C22_SingleMessage == []C22_OneRecordOneCall /\ [][C22_Step]_vars

\* a single message was sent to a phone that a vendor run had already
\* notified the same day, and another was recorded as failed
C22_Witness ==
    \E r \in Procs :
        /\ run[r].kind = "adhoc" /\ run[r].result = "sent"
        /\ \E a, b \in ledger :
              /\ a.id = r /\ a.status = "sent"
              /\ b.id # r /\ b.origin = "vendor" /\ b.status = "sent"
              /\ b.phone = a.phone /\ b.day = a.day
\* C23: the error details in the summary of a dispatch run have at most 20
\* entries, however many sends failed.
C23_ErrorsCapped ==
    \A r \in Procs :
        (Dispatch(r) /\ run[r].pc = "done") =>
            ("errors" \in DOMAIN Summary(run[r]) =>
                Summary(run[r]).errors <= 20)
\* the chunks of a run's calls that have no record yet
Unfinished(r) == {c \in run[r].sends : RowsOfChunk(r, c[1], c[2]) = {}}

C24_Order ==
    \A r \in Procs :
        run[r].kind = "vendor" =>
            /\ \A c \in run[r].sends :
                  \A k \in 0..(c[2] - 1) :
                      <<c[1], k>> \in run[r].sends /\ RowsOfChunk(r, c[1], k) # {}
            /\ Unfinished(r) = IF InCall(r) THEN {<<run[r].i, run[r].k>>} ELSE {}
            /\ InCall(r) =>
                  LET N == Len(VendorChunks(run[r]))
                  IN  /\ run[r].k < N
                      /\ run[r].header =
                            IF N > 1
                            THEN [shown |-> TRUE, part |-> run[r].k + 1, of |-> N]
                            ELSE [shown |-> FALSE, part |-> 0, of |-> 0]

C24_Step ==
    \A r \in Procs :
        (run[r].kind = "vendor" /\ run'[r].sends # run[r].sends) =>
            /\ \A c \in run[r].sends :
                  \E row \in ledger' : /\ row.id = r /\ row.rcpt = c[1]
                                       /\ row.chunk = c[2]
                                       /\ row.status \in {"sent", "failed"}
            /\ run'[r].sends = run[r].sends \cup {<<run'[r].i, run'[r].k>>}
            /\ (run'[r].i = run[r].i) => (run'[r].k = run[r].k + 1)
            /\ (run'[r].i # run[r].i) => (run'[r].k = 0 /\ run'[r].i > run[r].i)

\* C24: in a vendor run the calls for a recipient are made in part order;
\* the k-th of N > 1 parts carries the header "Parte k de N" and a single
\* part carries none; the call for a part begins only when the call for the
\* part before it has ended and its record is finalized; a run never has two
\* gateway calls in progress.
C24_PartsInOrder == []C24_Order /\ [][C24_Step]_vars

\* the second of two parts is being sent after the first part's record was
\* finalized
C24_Witness ==
    \E r \in Procs :
        /\ run[r].kind = "vendor" /\ InCall(r) /\ run[r].k = 1
        /\ run[r].header = [shown |-> TRUE, part |-> 2, of |-> 2]
        /\ RowsOfChunk(r, run[r].i, 0) # {}
\* C25: in both channels the items are numbered continuously across the
\* parts of one recipient's alert: with a cap of C items, the j-th item of
\* part k (counted from 0) is shown with number k*C + j.
C25_ContinuousNumbers ==
    (call.fn \in {"format_critical_products_message",
                  "format_client_products_message"} /\ call.done) =>
        LET C == IF call.fn = "format_critical_products_message"
                 THEN PRODUCTS_PER_MESSAGE ELSE CLIENT_PRODUCTS_PER_MESSAGE
        IN  \A c \in 1..Len(call.ret) :
                \A j \in 1..Len(call.ret[c].items) :
                    call.ret[c].items[j][1] = (c - 1) * C + j
\* C26 as stated: a contact whose setting is unset, empty, not valid JSON
\* or JSON that is not a list gets all three alerting tiers as its interest
\* set.
C26_UnusableMeansAllTiers ==
    (call.fn = "user_types" /\ call.done /\ call.args[1].kind # "list") =>
        Range(call.ret) = {"MUITO CRITICO", "CRITICO", "ATENCAO"}

\* C26 amended: an unset or empty setting gives all three alerting tiers;
\* a setting that is not valid JSON, or valid JSON that is not a list, gives
\* the highest tier only.
C26_UnsetAllMalformedHighest ==
    (call.fn = "user_types" /\ call.done) =>
        /\ call.args[1].kind \in {"null", "empty"} =>
              call.ret = <<"MUITO CRITICO", "CRITICO", "ATENCAO">>
        /\ call.args[1].kind \in {"invalid", "notlist"} =>
              call.ret = <<"MUITO CRITICO">>

\* the interest set of a setting that is not valid JSON was determined
C26_Witness ==
    /\ call.fn = "user_types" /\ call.done
    /\ call.args[1].kind = "invalid"
    /\ call.ret = <<"MUITO CRITICO">>
\* The tier lists of a snapshot restricted to an interest set, the most
\* severe tier first
SeverityOrdered(interest, pm) ==
    Concat([k \in 1..Len(Tiers) |->
              IF Tiers[k] \in interest THEN pm[Tiers[k]] ELSE <<>>])

\* C27: for every interest list, in any order and with repeated or unknown
\* entries, the vendor payload is the most-severe-first concatenation of the
\* highest, high and medium tier lists restricted to the tiers of the list,
\* each item once, and it has no item of the already-expired tier.
C27_PayloadSeverityOrder ==
    (call.fn = "contact_products" /\ call.done /\ call.args[1].kind = "list") =>
        call.ret = Uniq(SeverityOrdered(Range(call.args[1].items), call.args[2]))
\* The numbers a vendor run has called the gateway for
CalledNumbers(r) == {ActivePhones[c[1]].number : c \in run[r].sends}

\* The contacts of the table a vendor run has nothing to send to
NothingToSend ==
    {c \in Range(phone_numbers) :
        ~c.is_active \/ ContactProducts(c, products_map) = <<>>}

\* C28: a vendor run, with force=true as well as force=false, makes no
\* gateway call and creates no ledger record for a contact that is inactive
\* or whose interest-filtered payload is empty.
C28_NothingForInactiveOrEmpty ==
    \A r \in Procs :
        run[r].kind = "vendor" =>
            \A c \in NothingToSend :
                /\ c.number \notin CalledNumbers(r)
                /\ run[r].log # NoLog => run[r].log.phone # c.number
                /\ \A row \in ledger :
                      row.origin = "vendor" => row.phone # c.number

\* a forced vendor run returned its summary after sending to one contact
\* and passing over an inactive one and one with an empty payload
C28_Witness ==
    \E r \in Procs :
        /\ run[r].kind = "vendor" /\ run[r].force /\ run[r].result = "summary"
        /\ run[r].sent_count >= 1 /\ run[r].skipped_count >= 1
        /\ \E c \in NothingToSend : ~c.is_active
        /\ \E c \in NothingToSend : c.is_active
\* The chunk numbers of contact i's payload
ChunkIds(i) ==
    0..(Len(Chunks(ContactProducts(ActivePhones[i], products_map),
                   PRODUCTS_PER_MESSAGE)) - 1)

\* The first run recorded one chunk of contact i as sent and another as
\* failed
PartlySent(i) ==
    /\ \E row \in RowsOf(1, i) : row.status = "sent"
    /\ \E row \in RowsOf(1, i) : row.status = "failed"

\* The first run recorded every chunk of contact i as failed
AllFailed(i) ==
    \A k \in ChunkIds(i) :
        \E row \in RowsOf(1, i) : row.chunk = k /\ row.status = "failed"

\* C29: when a run without force sent one chunk of a recipient and failed
\* another, a later run without force on the same day skips the recipient,
\* so the failed chunk is not sent; when all the recipient's chunks failed,
\* the next run without force attempts all of them again.
C29_PartialIsFinalAllFailedRetried ==
    (/\ run[1].kind = "vendor" /\ ~run[1].force
     /\ run[2].kind = "vendor" /\ ~run[2].force) =>
        \A i \in WithPayload :
            /\ PartlySent(i) =>
                  /\ SendsTo(2, i) = {} /\ RowsOf(2, i) = {}
                  /\ run[2].result = "summary" => i \in run[2].deduped
            /\ AllFailed(i) =>
                  /\ i \notin run[2].deduped
                  /\ run[2].result = "summary" =>
                        (SentAllChunks(2, i)
                         /\ \A k \in ChunkIds(i) : RowsOfChunk(2, i, k) # {})

\* the second run, without force, returned after skipping a recipient of
\* whose two chunks the first run, without force, sent one and failed one
C29_Witness ==
    /\ run[1].kind = "vendor" /\ ~run[1].force
    /\ run[2].kind = "vendor" /\ ~run[2].force /\ run[2].result = "summary"
    /\ \E i \in WithPayload :
          PartlySent(i) /\ i \in run[2].deduped /\ SendsTo(2, i) = {}

\* the second run, without force, called the gateway for both chunks of a
\* recipient whose two chunks both failed in the first run
C29_WitnessRetried ==
    /\ run[1].kind = "vendor" /\ ~run[1].force
    /\ run[2].kind = "vendor" /\ ~run[2].force /\ run[2].result = "summary"
    /\ \E i \in WithPayload :
          AllFailed(i) /\ Cardinality(ChunkIds(i)) = 2 /\ SentAllChunks(2, i)
\* The clients of the table whose phone value normalizes to the number n
ClientsOf(n) == {i \in 1..Len(clients) : normalize_phone(clients[i]) = n}

\* The numbers two or more clients of the table share
SharedNumbers ==
    {n \in {normalize_phone(clients[i]) : i \in 1..Len(clients)} :
        n # <<>> /\ Cardinality(ClientsOf(n)) >= 2}

\* The run recorded a chunk for client i as sent
ClientSent(r, i) == \E row \in RowsOf(r, i) : row.status = "sent"

\* C30: in one client run with force=false, of the inactive clients whose
\* phone values normalize to one number at most one has chunks sent to it:
\* once a chunk of the first is recorded as sent, every later one is counted
\* as skipped in that run. With force=true each of them gets its own sends
\* to that number.
C30_DuplicateNumbers ==
    \A r \in Procs :
        (run[r].kind = "client" /\ ~InCall(r)) =>
            \A n \in SharedNumbers :
                /\ ~run[r].force =>
                      \A i, j \in ClientsOf(n) :
                          (i < j /\ ClientSent(r, i)) =>
                              /\ SendsTo(r, j) = {}
                              /\ j \in run[r].deduped
                /\ run[r].force =>
                      \A i \in ClientsOf(n) :
                          /\ SendsTo(r, i) # {}
                          /\ \A row \in RowsOf(r, i) : row.phone = n
====
